---------------------------- MODULE Spec2Model ----------------------------
(***************************************************************************)
(* NELFUND retrieval-augmented question answering.                         *)
(*                                                                         *)
(*   backend/rag_engine.py    NELFUNDRAGAgent: classify -> retrieve ->     *)
(*                            generate, run by a compiled LangGraph.       *)
(*   backend/vector_store.py  NELFUNDVectorStore: create / load / search   *)
(*                            of the persisted Chroma collection.          *)
(*   backend/document_processor.py  chunk_documents and its splitter.      *)
(*   backend/main.py          the chat endpoint over the chats collection. *)
(*                                                                         *)
(* Text is modelled as a sequence of one-character strings, so that        *)
(* lower(), strip(), `in` and os.path.basename are computed, not assumed.  *)
(***************************************************************************)
EXTENDS Integers, Sequences, FiniteSets, TLC

VARIABLES
    apiKey,      \* os.getenv("OPENAI_API_KEY") is set
    platform,    \* "posix" | "nt": which os.path the interpreter binds
    dirExists,   \* os.path.exists(persist_directory)
    entries,     \* index entries persisted in the collection
    indexUp,     \* the Chroma handle answers (FALSE: the search call raises)
    agent,       \* _agent_instance: "None" | "ready"
    agentError,  \* exception of the last failed NELFUNDRAGAgent() construction
    liveQ,       \* query slots the callers use
    run,         \* per query slot: position in the graph, AgentState, probes
    liveB,       \* build processes that were launched
    bld,         \* per build process: position in create_vectorstore, locals
    ncalls,      \* number of create_vectorstore calls made so far
    chk,         \* the document processor: its documents, parameters and chunks
    chat         \* the chat endpoint: the stored chats and the last request served

vars == << apiKey, platform, dirExists, entries, indexUp, agent, agentError,
           liveQ, run, liveB, bld, ncalls, chk, chat >>

storageVars == << dirExists, entries >>
agentVars   == << agent, agentError, liveQ, run, indexUp >>
buildVars   == << liveB, bld, ncalls >>

-----------------------------------------------------------------------------
(* Text helpers *)

UpperChars == <<"A", "B", "C", "D", "E", "F", "G", "H", "I", "J", "K", "L", "M",
                "N", "O", "P", "Q", "R", "S", "T", "U", "V", "W", "X", "Y", "Z">>
LowerChars == <<"a", "b", "c", "d", "e", "f", "g", "h", "i", "j", "k", "l", "m",
                "n", "o", "p", "q", "r", "s", "t", "u", "v", "w", "x", "y", "z">>

Whitespace == {" ", "\t", "\n", "\r"}

\* str.lower() on one character
lower_char(c) ==
    IF \E i \in 1..Len(UpperChars) : UpperChars[i] = c
    THEN LowerChars[CHOOSE i \in 1..Len(UpperChars) : UpperChars[i] = c]
    ELSE c

\* str.lower()
lower(s) == [i \in 1..Len(s) |-> lower_char(s[i])]

\* str.strip(): drop leading and trailing whitespace
strip(s) ==
    LET keep == {i \in 1..Len(s) : s[i] \notin Whitespace}
    IN  IF keep = {} THEN <<>>
        ELSE LET lo == CHOOSE i \in keep : \A j \in keep : i <= j
                 hi == CHOOSE i \in keep : \A j \in keep : j <= i
             IN  SubSeq(s, lo, hi)

\* Python's `p in s` on strings
str_in(p, s) ==
    \E i \in 0..(Len(s) - Len(p)) : SubSeq(s, i + 1, i + Len(p)) = p

\* str.rfind over a set of separator characters, 0 when there is none
rfind(s, seps) ==
    LET at == {i \in 1..Len(s) : s[i] \in seps}
    IN  IF at = {} THEN 0 ELSE CHOOSE i \in at : \A j \in at : j <= i

\* posixpath.basename splits at "/" only; ntpath.basename at "/" and "\".
os_path_basename(p) ==
    LET seps == IF platform = "nt" THEN {"/", "\\"} ELSE {"/"}
    IN  SubSeq(p, rfind(p, seps) + 1, Len(p))

\* dict.get(key, default)
dict_get(d, key, default) == IF key \in DOMAIN d THEN d[key] ELSE default

-----------------------------------------------------------------------------
(* Inputs *)

Q_Hello  == <<"H", "e", "l", "l", "o", "!">>
Q_HiDocs == <<"h", "i", ",", " ", "w", "h", "a", "t", " ", "d", "o", "c", "u", "m",
              "e", "n", "t", "s", " ", "d", "o", " ", "I", " ", "n", "e", "e", "d">>
Q_Docs   == <<"W", "h", "a", "t", " ", "d", "o", "c", "u", "m", "e", "n", "t", "s",
              " ", "d", "o", " ", "I", " ", "n", "e", "e", "d", " ", "t", "o", " ",
              "a", "p", "p", "l", "y", "?">>
Q_Thanks == <<" ", " ", "T", "H", "A", "N", "K", "S", " ", "\n">>
Q_Which  == <<"w", "h", "i", "c", "h", " ", "l", "o", "a", "n">>
Q_Repay  == <<"R", "e", "p", "a", "y", " ", "t", "e", "r", "m", "s">>

Queries == {Q_Hello, Q_HiDocs, Q_Docs, Q_Thanks, Q_Which, Q_Repay}

Msg(r, c) == [role |-> r, content |-> c]

H_Long == << Msg("user", "u1"), Msg("assistant", "a1"), Msg("user", "u2"),
             Msg("assistant", "a2"), Msg("user", "u3"), Msg("assistant", "a3"),
             Msg("user", "u4"), Msg("assistant", "a4") >>

H_Short == << Msg("assistant", "a0"), Msg("user", "u1"), Msg("assistant", "a1") >>

Histories == {<<>>, H_Short, H_Long}

\* Chunks of the corpus: page_content and metadata as stored by the loader.
Doc(c, src) == [page_content |-> c, metadata |-> [source |-> src]]

D_a1  == Doc("c1", <<"d", "/", "a">>)
D_a2  == Doc("c2", <<"d", "/", "a">>)
D_ea  == Doc("c3", <<"e", "/", "a">>)
D_win == Doc("c4", <<"d", "\\", "b">>)
D_b   == Doc("c5", <<"b">>)
D_anon == [page_content |-> "c6", metadata |-> [page |-> "1"]]

Corpus == {D_a1, D_a2, D_ea, D_win, D_b, D_anon}

Entry(d, n) == [doc |-> d, call |-> n]

StoredDocs == {e.doc : e \in entries}

Slots == {"q1", "q2"}
Builders == {"b1", "b2"}


-----------------------------------------------------------------------------
(* backend/rag_engine.py : NELFUNDRAGAgent *)

no_retrieval_patterns ==
    << <<"h", "e", "l", "l", "o">>,
       <<"h", "i">>,
       <<"h", "e", "y">>,
       <<"g", "o", "o", "d", " ", "m", "o", "r", "n", "i", "n", "g">>,
       <<"g", "o", "o", "d", " ", "a", "f", "t", "e", "r", "n", "o", "o", "n">>,
       <<"g", "o", "o", "d", " ", "e", "v", "e", "n", "i", "n", "g">>,
       <<"t", "h", "a", "n", "k", "s">>,
       <<"t", "h", "a", "n", "k", " ", "y", "o", "u">>,
       <<"b", "y", "e">>,
       <<"g", "o", "o", "d", "b", "y", "e">>,
       <<"h", "o", "w", " ", "a", "r", "e", " ", "y", "o", "u">>,
       <<"w", "h", "a", "t", "'", "s", " ", "u", "p">>,
       <<"w", "h", "a", "t", " ", "c", "a", "n", " ", "y", "o", "u", " ", "d", "o">> >>

UnknownDocument == <<"U", "n", "k", "n", "o", "w", "n", " ", "D", "o", "c", "u",
                     "m", "e", "n", "t">>

\* Top-k of the retrieve node
K == 4

\* The window of history messages put in the grounded prompt
HistoryWindow == 6

END == "__end__"

\* AgentState as query() initialises it
initial_state(user_query, chat_history) ==
    [ messages        |-> chat_history,
      query           |-> user_query,
      needs_retrieval |-> TRUE,
      retrieved_docs  |-> <<>>,
      response        |-> "",
      sources         |-> <<>> ]

\* A mutation of _classify_query: the query must equal a pattern
classify_query_whole(state) ==
    LET query == strip(lower(state.query))
    IN  [state EXCEPT !.needs_retrieval =
            ~(\E i \in 1..Len(no_retrieval_patterns) : no_retrieval_patterns[i] = query)]

\* _classify_query
classify_query(state) ==
    LET query == strip(lower(state.query))
    IN  IF \E i \in 1..Len(no_retrieval_patterns) :
               str_in(no_retrieval_patterns[i], query)
        THEN [state EXCEPT !.needs_retrieval = FALSE]
        ELSE [state EXCEPT !.needs_retrieval = TRUE]

\* The loop body of _retrieve_documents over one result: the source key,
\* reduced to a file name when it holds a separator
source_of(doc) ==
    LET source == dict_get(doc.metadata, "source", UnknownDocument)
    IN  IF str_in(<<"/">>, source) \/ str_in(<<"\\">>, source)
        THEN os_path_basename(source)
        ELSE source

\* A mutation of the source loop: every result appends its source
RECURSIVE collect_sources_all(_, _)
collect_sources_all(results, sources) ==
    IF results = <<>> THEN sources
    ELSE collect_sources_all(Tail(results), Append(sources, source_of(Head(results))))

\* The source loop of _retrieve_documents: append when not yet in the list
RECURSIVE collect_sources(_, _)
collect_sources(results, sources) ==
    IF results = <<>> THEN sources
    ELSE LET source == source_of(Head(results))
         IN  collect_sources(Tail(results),
                 IF \E i \in 1..Len(sources) : sources[i] = source
                 THEN sources ELSE Append(sources, source))

\* What the vector store answers to similarity_search_with_score(query, k):
\* an exception, or at most k distinct stored chunks, best match first.
SearchOutcome(ok, docs) == [ok |-> ok, docs |-> docs]

SearchFail == SearchOutcome(FALSE, <<>>)

Injective(f) == \A i, j \in DOMAIN f : f[i] = f[j] => i = j

SearchAnswers(k) ==
    { SearchOutcome(TRUE, f) :
        f \in { g \in UNION { [1..n -> StoredDocs] : n \in 0..k } : Injective(g) } }

\* A node's outcome: the state it returns, whether it raised, and whether it
\* called the external service
NodeOut(state, raised, called) == [state |-> state, raised |-> raised, called |-> called]

\* A mutation of the search call: the normalised query text is searched
search_args_normalised(state) == [query |-> strip(lower(state.query)), k |-> K]

\* The arguments of the one similarity_search_with_score call of
\* _retrieve_documents
search_args(state) == [query |-> state.query, k |-> K]

\* A mutation of _retrieve_documents: the sources are never stored
retrieve_documents_nosources(state, search) ==
    IF ~state.needs_retrieval THEN NodeOut(state, FALSE, FALSE)
    ELSE IF ~search.ok THEN NodeOut(state, TRUE, TRUE)
    ELSE NodeOut([state EXCEPT
                     !.retrieved_docs = [i \in 1..Len(search.docs) |-> search.docs[i].page_content]],
                 FALSE, TRUE)

\* A mutation of _retrieve_documents: the search runs whatever the flag says
retrieve_documents_always(state, search) ==
    IF ~search.ok THEN NodeOut(state, TRUE, TRUE)
    ELSE NodeOut([state EXCEPT
                     !.retrieved_docs = [i \in 1..Len(search.docs) |-> search.docs[i].page_content],
                     !.sources = collect_sources(search.docs, <<>>)],
                 FALSE, TRUE)

\* A mutation of _retrieve_documents: a failed search is swallowed
retrieve_documents_swallow(state, search) ==
    IF ~state.needs_retrieval THEN NodeOut(state, FALSE, FALSE)
    ELSE IF ~search.ok THEN NodeOut(state, FALSE, TRUE)
    ELSE NodeOut([state EXCEPT
                     !.retrieved_docs = [i \in 1..Len(search.docs) |-> search.docs[i].page_content],
                     !.sources = collect_sources(search.docs, <<>>)],
                 FALSE, TRUE)

\* _retrieve_documents
retrieve_documents(state, search) ==
    IF ~state.needs_retrieval THEN NodeOut(state, FALSE, FALSE)
    ELSE IF ~search.ok THEN NodeOut(state, TRUE, TRUE)
    ELSE NodeOut([state EXCEPT
                     !.retrieved_docs = [i \in 1..Len(search.docs) |-> search.docs[i].page_content],
                     !.sources = collect_sources(search.docs, <<>>)],
                 FALSE, TRUE)

\* "\n\n".join(docs)
RECURSIVE join(_)
join(docs) ==
    IF docs = <<>> THEN <<>>
    ELSE IF Len(docs) = 1 THEN docs
    ELSE <<Head(docs), "\n\n">> \o join(Tail(docs))

\* A mutation of the history slice: messages[:6], the oldest messages
first_n(messages, n) ==
    IF Len(messages) <= n THEN messages ELSE SubSeq(messages, 1, n)

\* messages[-6:]
last_n(messages, n) ==
    IF Len(messages) <= n THEN messages
    ELSE SubSeq(messages, Len(messages) - n + 1, Len(messages))

\* The history loop of _generate_response
RECURSIVE convert_history(_)
convert_history(messages) ==
    IF messages = <<>> THEN <<>>
    ELSE LET msg == Head(messages)
             rest == convert_history(Tail(messages))
         IN  IF dict_get(msg, "role", "") = "user"
             THEN <<[type |-> "human", content |-> msg.content]>> \o rest
             ELSE IF dict_get(msg, "role", "") = "assistant"
             THEN <<[type |-> "ai", content |-> msg.content]>> \o rest
             ELSE rest

\* A mutation of _generate_response: without retrieved chunks the
\* conversational prompt is used
build_prompt_fallback(state) ==
    IF state.needs_retrieval /\ state.retrieved_docs # <<>>
    THEN [ system       |-> "grounded",
           context      |-> join(state.retrieved_docs),
           chat_history |-> convert_history(last_n(state.messages, HistoryWindow)),
           query        |-> state.query ]
    ELSE [ system       |-> "conversational",
           context      |-> <<>>,
           chat_history |-> <<>>,
           query        |-> state.query ]

\* The prompt _generate_response hands to the chain
build_prompt(state) ==
    IF state.needs_retrieval
    THEN [ system       |-> "grounded",
           context      |-> join(state.retrieved_docs),
           chat_history |-> convert_history(last_n(state.messages, HistoryWindow)),
           query        |-> state.query ]
    ELSE [ system       |-> "conversational",
           context      |-> <<>>,
           chat_history |-> <<>>,
           query        |-> state.query ]

LLMFail == "__raise__"
LLMReplies == {"reply"}

\* A mutation of _generate_response: a failed chain is answered locally
generate_response_fallback(state, llm) ==
    IF llm = LLMFail
    THEN NodeOut([state EXCEPT !.response = "Sorry, something went wrong."], FALSE, TRUE)
    ELSE IF state.needs_retrieval
    THEN NodeOut([state EXCEPT !.response = llm], FALSE, TRUE)
    ELSE NodeOut([state EXCEPT !.response = llm, !.sources = <<>>], FALSE, TRUE)

\* _generate_response; llm is the chain's outcome
generate_response(state, llm) ==
    IF llm = LLMFail THEN NodeOut(state, TRUE, TRUE)
    ELSE IF state.needs_retrieval
    THEN NodeOut([state EXCEPT !.response = llm], FALSE, TRUE)
    ELSE NodeOut([state EXCEPT !.response = llm, !.sources = <<>>], FALSE, TRUE)

\* A mutation of _build_graph: classify is wired straight to generate
build_graph_skip(node) ==
    CASE node = "entry"    -> "classify"
      [] node = "classify" -> "generate"
      [] node = "retrieve" -> "generate"
      [] node = "generate" -> END

\* _build_graph: the entry point and the edges of the compiled workflow
build_graph(node) ==
    CASE node = "entry"    -> "classify"
      [] node = "classify" -> "retrieve"
      [] node = "retrieve" -> "generate"
      [] node = "generate" -> END

\* What query() returns
query_result(state) ==
    [ response        |-> state.response,
      sources         |-> state.sources,
      needs_retrieval |-> state.needs_retrieval ]


-----------------------------------------------------------------------------
(* One query slot: a caller's position in NELFUNDRAGAgent.query *)

IdleRun ==
    [ pc           |-> "idle",
      state        |-> initial_state(<<>>, <<>>),
      trace        |-> <<>>,     \* nodes that have completed, in order
      asked        |-> <<>>,     \* the user_query handed to query()
      history      |-> <<>>,     \* the chat_history handed to query()
      overlapped   |-> FALSE,    \* another query was in the graph when this one began
      searchCalls  |-> 0,        \* similarity_search_with_score calls of this query
      searchArgs   |-> <<>>,     \* the arguments of those calls, in order
      llmCalls     |-> 0,        \* chain.invoke calls of this query
      searchFailed |-> FALSE,    \* the search of this query raised
      hits         |-> <<>>,     \* the chunks the search of this query returned
      prompt       |-> <<>>,     \* the prompt handed to the chain, if any
      llm          |-> <<>>,     \* what the chain answered, if it was invoked
      result       |-> <<>> ]    \* the value query() returned, if any

\* A mutation of query(): the state is kept on the shared agent object, so
\* every query works on the state of the first
state_of_shared(r, s) == r["q1"].state

\* The AgentState a node of query s receives: the dict query() created for this
\* call and handed to graph.invoke
state_of(r, s) == r[s].state

\* get_rag_agent() with _agent_instance None: NELFUNDRAGAgent.__init__ and
\* _load_vectorstore; an exception leaves the singleton None.
GetRagAgent ==
    /\ agent = "None"
    /\ IF ~apiKey
       THEN agent' = agent /\ agentError' = "ValueError"
       ELSE IF ~dirExists
       THEN agent' = agent /\ agentError' = "FileNotFoundError"
       ELSE agent' = "ready" /\ agentError' = "none"
    /\ UNCHANGED << chat, chk, apiKey, platform, storageVars, indexUp, liveQ, run, buildVars >>

\* query(): the initial state, then graph.invoke enters at the entry point
QueryStart(s, q, h) ==
    /\ s \in liveQ
    /\ agent = "ready"
    /\ run[s].pc \in {"idle", "returned", "raised"}
    /\ run' = [run EXCEPT ![s] =
                  [IdleRun EXCEPT !.pc = build_graph("entry"),
                                  !.asked = <<q>>,
                                  !.history = h,
                                  !.overlapped =
                                      \E t \in Slots \ {s} :
                                         run[t].pc \in {"classify", "retrieve", "generate", END},
                                  !.state = initial_state(q, h)]]
    /\ UNCHANGED << chat, chk, apiKey, platform, storageVars, indexUp, agent, agentError,
                    liveQ, buildVars >>

\* node "classify"
Classify(s) ==
    /\ run[s].pc = "classify"
    /\ run' = [run EXCEPT ![s].state = classify_query(state_of(run, s)),
                          ![s].trace = Append(@, "classify"),
                          ![s].pc = build_graph("classify")]
    /\ UNCHANGED << chat, chk, apiKey, platform, storageVars, indexUp, agent, agentError,
                    liveQ, buildVars >>

\* node "retrieve"; an exception of the search leaves graph.invoke and query()
Retrieve(s) ==
    /\ run[s].pc = "retrieve"
    /\ \E search \in (IF indexUp THEN SearchAnswers(search_args(state_of(run, s)).k)
                               ELSE {SearchFail}) :
          LET out == retrieve_documents(state_of(run, s), search)
          IN  run' = [run EXCEPT
                  ![s].state = out.state,
                  ![s].searchCalls = IF out.called THEN @ + 1 ELSE @,
                  ![s].searchArgs = IF out.called
                                    THEN Append(@, search_args(state_of(run, s))) ELSE @,
                  ![s].searchFailed = out.called /\ ~search.ok,
                  ![s].hits = IF out.called THEN search.docs ELSE <<>>,
                  ![s].trace = IF out.raised THEN @ ELSE Append(@, "retrieve"),
                  ![s].pc = IF out.raised THEN "raised" ELSE build_graph("retrieve")]
    /\ UNCHANGED << chat, chk, apiKey, platform, storageVars, indexUp, agent, agentError,
                    liveQ, buildVars >>

\* node "generate"; an exception of the chain leaves graph.invoke and query()
Generate(s) ==
    /\ run[s].pc = "generate"
    /\ \E llm \in LLMReplies \cup {LLMFail} :
          LET out == generate_response(state_of(run, s), llm)
          IN  run' = [run EXCEPT
                  ![s].state = out.state,
                  ![s].llmCalls = IF out.called THEN @ + 1 ELSE @,
                  ![s].prompt = <<build_prompt(state_of(run, s))>>,
                  ![s].llm = <<llm>>,
                  ![s].trace = IF out.raised THEN @ ELSE Append(@, "generate"),
                  ![s].pc = IF out.raised THEN "raised" ELSE build_graph("generate")]
    /\ UNCHANGED << chat, chk, apiKey, platform, storageVars, indexUp, agent, agentError,
                    liveQ, buildVars >>

\* END reached: query() returns response, sources, needs_retrieval
QueryReturn(s) ==
    /\ run[s].pc = END
    /\ run' = [run EXCEPT ![s].result = <<query_result(run[s].state)>>,
                          ![s].trace = Append(@, "done"),
                          ![s].pc = "returned"]
    /\ UNCHANGED << chat, chk, apiKey, platform, storageVars, indexUp, agent, agentError,
                    liveQ, buildVars >>

\* The environment: the loaded Chroma handle stops or resumes answering
IndexOutage ==
    /\ agent = "ready" /\ indexUp
    /\ indexUp' = FALSE
    /\ UNCHANGED << chat, chk, apiKey, platform, storageVars, agent, agentError, liveQ, run,
                    buildVars >>

IndexRestore ==
    /\ agent = "ready" /\ ~indexUp
    /\ indexUp' = TRUE
    /\ UNCHANGED << chat, chk, apiKey, platform, storageVars, agent, agentError, liveQ, run,
                    buildVars >>


-----------------------------------------------------------------------------
(* backend/vector_store.py : NELFUNDVectorStore *)

\* Number of create_vectorstore calls explored in one behaviour
MaxBuilds == 2

\* The chunk lists handed to create_vectorstore
DocSets == {{}, {D_a1}, {D_a1, D_b}}

\* Collections a previous setup may have left on storage
OldCollections == {{}, {Entry(D_ea, 0)}}

Storage(dir, stored) == [dir |-> dir, entries |-> stored]

\* A mutation of create_vectorstore: an existing store is embedded into again
create_vectorstore_append(db_exists, force_recreate) ==
    IF db_exists /\ force_recreate THEN "clear" ELSE "makedirs"

\* A mutation of create_vectorstore: an existing store is rebuilt, not loaded
create_vectorstore_rebuild(db_exists, force_recreate) ==
    IF db_exists THEN "clear" ELSE "makedirs"

\* create_vectorstore: which branch follows os.path.exists
create_vectorstore(db_exists, force_recreate) ==
    IF db_exists /\ ~force_recreate THEN "load"
    ELSE IF db_exists /\ force_recreate THEN "clear"
    ELSE "makedirs"

\* shutil.rmtree either removes the tree, or raises having removed `left` short
RmOutcome(ok, left) == [ok |-> ok, left |-> left]

RmOutcomes(stored) == {RmOutcome(TRUE, {})} \cup {RmOutcome(FALSE, l) : l \in {stored, {}}}

\* _clear_directory: the exception of rmtree is logged, never raised
clear_directory(store, rm) ==
    IF ~store.dir THEN [store |-> store, raised |-> FALSE]
    ELSE IF rm.ok THEN [store |-> Storage(FALSE, {}), raised |-> FALSE]
    ELSE [store |-> Storage(TRUE, rm.left), raised |-> FALSE]

\* Chroma.from_documents: adds one entry per document to whatever the
\* collection holds; a failure may leave some of them written
WriteOutcome(ok, written) == [ok |-> ok, written |-> written]

WriteOutcomes(documents) ==
    {WriteOutcome(TRUE, documents)}
        \cup {WriteOutcome(FALSE, w) : w \in (SUBSET documents) \ {documents}}
        \cup {WriteOutcome(FALSE, {})}

from_documents(store, call, wr) ==
    Storage(TRUE, store.entries \cup {Entry(d, call) : d \in wr.written})

\* A mutation of load_vectorstore: the existence test is missing
load_vectorstore_unchecked(exists) == "load"

\* load_vectorstore: VectorStoreError when the directory is missing, else
\* _load_existing_store
load_vectorstore(exists) == IF ~exists THEN "raised" ELSE "load"

\* OpenAIEmbeddings(max_retries=3)
max_retries == 3

EmbedOutcomes == {"ok", "transient", "fatal"}

\* A mutation of the embeddings client: a transient error is always retried
embed_with_retry_forever(retries, outcome) ==
    CASE outcome = "ok"        -> "ok"
      [] outcome = "fatal"     -> "raise"
      [] outcome = "transient" -> "retry"

\* One attempt of an embedding call by the client _initialize_embeddings
\* configures: a transient error is retried while retries are left, any other
\* error and the last transient one are raised
embed_with_retry(retries, outcome) ==
    CASE outcome = "ok"        -> "ok"
      [] outcome = "fatal"     -> "raise"
      [] outcome = "transient" -> IF retries < max_retries THEN "retry" ELSE "raise"

\* similarity_search_with_score around the store's search: an exception is
\* logged and raised again as VectorStoreError
search_wrapper(step) ==
    CASE step = "ok"    -> "done"
      [] step = "retry" -> "search_embed"
      [] step = "raise" -> "raised"

NewBuilder ==
    [ pc             |-> "new",
      documents      |-> {},
      force_recreate |-> FALSE,
      db_exists      |-> FALSE,
      vectorstore    |-> "None",     \* self.vectorstore
      call           |-> 0,          \* which create_vectorstore call this is
      before         |-> Storage(FALSE, {}),  \* the storage when the call began
      embedCalls     |-> 0,          \* embedding-service calls of this call
      retries        |-> 0,          \* retries made by the embedding call in progress
      embedFailed    |-> FALSE,      \* the embedding client raised in this call
      writes         |-> 0,          \* storage writes of this call
      erases         |-> 0,          \* rmtree attempts of this call
      eraseFailed    |-> FALSE,      \* rmtree raised in this call
      op             |-> "create" ]  \* the method called: create_vectorstore | load_vectorstore

\* A mutation of _initialize_embeddings: the key is not tested
NewVectorStore_unchecked(b) ==
    /\ b \in liveB
    /\ bld[b].pc = "new"
    /\ bld' = [bld EXCEPT ![b].pc = "ready"]
    /\ UNCHANGED << chat, chk, apiKey, platform, storageVars, agentVars, liveB, ncalls >>

\* __init__ and _initialize_embeddings
NewVectorStore(b) ==
    /\ b \in liveB
    /\ bld[b].pc = "new"
    /\ bld' = [bld EXCEPT ![b].pc = IF apiKey THEN "ready" ELSE "init_failed"]
    /\ UNCHANGED << chat, chk, apiKey, platform, storageVars, agentVars, liveB, ncalls >>

\* create_vectorstore up to the branch taken after os.path.exists
BuildCall(b, documents, force_recreate) ==
    /\ bld[b].pc \in {"ready", "done", "raised"}
    /\ ncalls < MaxBuilds
    /\ ncalls' = ncalls + 1
    /\ bld' = [bld EXCEPT ![b] =
                  [NewBuilder EXCEPT
                      !.pc = create_vectorstore(dirExists, force_recreate),
                      !.documents = documents,
                      !.force_recreate = force_recreate,
                      !.db_exists = dirExists,
                      !.vectorstore = bld[b].vectorstore,
                      !.call = ncalls + 1,
                      !.before = Storage(dirExists, entries)]]
    /\ UNCHANGED << chat, chk, apiKey, platform, storageVars, agentVars, liveB >>

\* _load_existing_store: Chroma(...) opens the collection or raises
LoadExisting(b) ==
    /\ bld[b].pc = "load"
    /\ \E ok \in BOOLEAN :
          bld' = [bld EXCEPT ![b].vectorstore = IF ok THEN "loaded" ELSE @,
                             ![b].pc = IF ~ok THEN "raised"
                                       ELSE IF bld[b].op = "search" THEN "search_embed"
                                       ELSE "done"]
    /\ UNCHANGED << chat, chk, apiKey, platform, storageVars, agentVars, liveB, ncalls >>

\* load_vectorstore up to the branch taken after os.path.exists
LoadCall(b) ==
    /\ bld[b].pc \in {"ready", "done", "raised"}
    /\ ncalls < MaxBuilds
    /\ ncalls' = ncalls + 1
    /\ bld' = [bld EXCEPT ![b] =
                  [NewBuilder EXCEPT
                      !.pc = load_vectorstore(dirExists),
                      !.op = "load",
                      !.db_exists = dirExists,
                      !.vectorstore = bld[b].vectorstore,
                      !.call = ncalls + 1,
                      !.before = Storage(dirExists, entries)]]
    /\ UNCHANGED << chat, chk, apiKey, platform, storageVars, agentVars, liveB >>

\* _clear_directory, then on to _create_new_store
ClearDirectory(b) ==
    /\ bld[b].pc = "clear"
    /\ \E rm \in RmOutcomes(entries) :
          LET out == clear_directory(Storage(dirExists, entries), rm)
          IN  /\ dirExists' = out.store.dir
              /\ entries' = out.store.entries
              /\ bld' = [bld EXCEPT ![b].erases = IF dirExists THEN @ + 1 ELSE @,
                                    ![b].eraseFailed = dirExists /\ ~rm.ok,
                                    ![b].pc = IF out.raised THEN "raised" ELSE "makedirs"]
    /\ UNCHANGED << chat, chk, apiKey, platform, agentVars, liveB, ncalls >>

\* _create_new_store: os.makedirs(persist_directory, exist_ok=True)
Makedirs(b) ==
    /\ bld[b].pc = "makedirs"
    /\ dirExists' = TRUE
    /\ bld' = [bld EXCEPT ![b].writes = IF dirExists THEN @ ELSE @ + 1,
                          ![b].pc = "embed"]
    /\ UNCHANGED << chat, chk, apiKey, platform, entries, agentVars, liveB, ncalls >>

\* _create_new_store: embed_query("test"); an exception becomes VectorStoreError
EmbedTest(b) ==
    /\ bld[b].pc = "embed"
    /\ \E outcome \in EmbedOutcomes :
          LET step == embed_with_retry(bld[b].retries, outcome)
          IN  bld' = [bld EXCEPT ![b].embedCalls = @ + 1,
                                 ![b].retries = IF step = "retry" THEN @ + 1 ELSE @,
                                 ![b].embedFailed = (step = "raise"),
                                 ![b].pc = CASE step = "ok"    -> "from_documents"
                                             [] step = "retry" -> "embed"
                                             [] step = "raise" -> "raised"]
    /\ UNCHANGED << chat, chk, apiKey, platform, storageVars, agentVars, liveB, ncalls >>

\* _create_new_store: Chroma.from_documents and persist()
FromDocuments(b) ==
    /\ bld[b].pc = "from_documents"
    /\ \E wr \in WriteOutcomes(bld[b].documents) :
          LET store == from_documents(Storage(dirExists, entries), bld[b].call, wr)
          IN  /\ dirExists' = store.dir
              /\ entries' = store.entries
              /\ bld' = [bld EXCEPT
                            ![b].embedCalls = @ + 1,
                            ![b].writes = @ + 1,
                            ![b].vectorstore = IF wr.ok THEN "created" ELSE @,
                            ![b].pc = IF wr.ok THEN "done" ELSE "raised"]
    /\ UNCHANGED << chat, chk, apiKey, platform, agentVars, liveB, ncalls >>

\* similarity_search_with_score up to the search itself: without a handle,
\* load_vectorstore first
SearchCall(b) ==
    /\ bld[b].pc \in {"ready", "done", "raised"}
    /\ ncalls < MaxBuilds
    /\ ncalls' = ncalls + 1
    /\ bld' = [bld EXCEPT ![b] =
                  [NewBuilder EXCEPT
                      !.pc = IF bld[b].vectorstore = "None"
                             THEN load_vectorstore(dirExists) ELSE "search_embed",
                      !.op = "search",
                      !.db_exists = dirExists,
                      !.vectorstore = bld[b].vectorstore,
                      !.call = ncalls + 1,
                      !.before = Storage(dirExists, entries)]]
    /\ UNCHANGED << chat, chk, apiKey, platform, storageVars, agentVars, liveB >>

\* The search of the store: the query is embedded by the client, attempt by
\* attempt, and the results come back or the exception is wrapped and raised
SearchEmbed(b) ==
    /\ bld[b].pc = "search_embed"
    /\ \E outcome \in EmbedOutcomes :
          LET step == embed_with_retry(bld[b].retries, outcome)
          IN  bld' = [bld EXCEPT ![b].embedCalls = @ + 1,
                                 ![b].retries = IF step = "retry" THEN @ + 1 ELSE @,
                                 ![b].embedFailed = (step = "raise"),
                                 ![b].pc = search_wrapper(step)]
    /\ UNCHANGED << chat, chk, apiKey, platform, storageVars, agentVars, liveB, ncalls >>

-----------------------------------------------------------------------------
(* backend/document_processor.py : NELFUNDDocumentProcessor.chunk_documents,  *)
(* with the RecursiveCharacterTextSplitter it configures and runs.           *)

\* Longest document text explored
MaxDocLen == 5

\* Largest chunk_size and chunk_overlap explored
MaxChunkSize == 3

\* The separators handed to the splitter, in priority order
Separators == << <<"\n", "\n">>, <<"\n">>, <<".", " ">>, <<" ">>, <<>> >>

\* str.find from position i: the first index of sep in text, 0 when absent
find(text, sep, i) ==
    LET at == {j \in i..(Len(text) - Len(sep) + 1) : SubSeq(text, j, j + Len(sep) - 1) = sep}
    IN  IF at = {} THEN 0 ELSE CHOOSE j \in at : \A k \in at : j <= k

\* re.split(sep, text): the pieces between the leftmost non-overlapping matches
RECURSIVE re_split(_, _)
re_split(text, sep) ==
    LET i == find(text, sep, 1)
    IN  IF i = 0 THEN <<text>>
        ELSE <<SubSeq(text, 1, i - 1)>> \o re_split(SubSeq(text, i + Len(sep), Len(text)), sep)

NonEmpty(s) == s # <<>>

\* A mutation of _split_text_with_regex: the separators are dropped
split_text_with_regex_drop(text, sep) ==
    IF sep # <<>>
    THEN SelectSeq(re_split(text, sep), NonEmpty)
    ELSE [i \in 1..Len(text) |-> <<text[i]>>]

\* _split_text_with_regex with keep_separator: each separator stays at the
\* head of the piece that follows it; "" splits into characters; empty pieces
\* are dropped
split_text_with_regex(text, sep) ==
    IF sep # <<>>
    THEN LET parts == re_split(text, sep)
             splits == <<parts[1]>> \o [k \in 1..(Len(parts) - 1) |-> sep \o parts[k + 1]]
         IN  SelectSeq(splits, NonEmpty)
    ELSE [i \in 1..Len(text) |-> <<text[i]>>]

\* "".join(docs)
RECURSIVE concat(_)
concat(docs) == IF docs = <<>> THEN <<>> ELSE Head(docs) \o concat(Tail(docs))

\* A mutation of _join_docs: the joined text is not stripped
join_docs_raw(docs) == concat(docs)

\* _join_docs: the pieces joined and stripped; the empty text stands for None
join_docs(docs) == strip(concat(docs))

\* The while loop of _merge_splits: pieces leave the front of current_doc until
\* what stays is within chunk_overlap and the next piece fits
RECURSIVE pop_overlap(_, _, _, _, _)
pop_overlap(current_doc, total, len, chunk_size, chunk_overlap) ==
    IF total > chunk_overlap \/ (total + len > chunk_size /\ total > 0)
    THEN pop_overlap(Tail(current_doc), total - Len(Head(current_doc)), len,
                     chunk_size, chunk_overlap)
    ELSE [current_doc |-> current_doc, total |-> total]

\* A mutation of the loop of _merge_splits: a chunk is closed only once
\* current_doc is already longer than chunk_size
RECURSIVE merge_loop_late(_, _, _, _, _, _)
merge_loop_late(splits, docs, current_doc, total, chunk_size, chunk_overlap) ==
    IF splits = <<>>
    THEN IF join_docs(current_doc) # <<>> THEN Append(docs, join_docs(current_doc)) ELSE docs
    ELSE LET d == Head(splits)
             len == Len(d)
         IN  IF total > chunk_size /\ Len(current_doc) > 0
             THEN LET doc == join_docs(current_doc)
                      kept == pop_overlap(current_doc, total, len, chunk_size, chunk_overlap)
                  IN  merge_loop_late(Tail(splits),
                                      IF doc # <<>> THEN Append(docs, doc) ELSE docs,
                                      Append(kept.current_doc, d), kept.total + len,
                                      chunk_size, chunk_overlap)
             ELSE merge_loop_late(Tail(splits), docs, Append(current_doc, d), total + len,
                                  chunk_size, chunk_overlap)

\* The for loop of _merge_splits (the joining separator is "", of length 0)
RECURSIVE merge_loop(_, _, _, _, _, _)
merge_loop(splits, docs, current_doc, total, chunk_size, chunk_overlap) ==
    IF splits = <<>>
    THEN IF join_docs(current_doc) # <<>> THEN Append(docs, join_docs(current_doc)) ELSE docs
    ELSE LET d == Head(splits)
             len == Len(d)
         IN  IF total + len > chunk_size /\ Len(current_doc) > 0
             THEN LET doc == join_docs(current_doc)
                      kept == pop_overlap(current_doc, total, len, chunk_size, chunk_overlap)
                  IN  merge_loop(Tail(splits),
                                 IF doc # <<>> THEN Append(docs, doc) ELSE docs,
                                 Append(kept.current_doc, d), kept.total + len,
                                 chunk_size, chunk_overlap)
             ELSE merge_loop(Tail(splits), docs, Append(current_doc, d), total + len,
                             chunk_size, chunk_overlap)

\* _merge_splits
merge_splits(splits, chunk_size, chunk_overlap) ==
    merge_loop(splits, <<>>, <<>>, 0, chunk_size, chunk_overlap)

\* The separator _split_text picks: the first that is "" or occurs in the text,
\* and the separators left for the pieces that are still too long
pick_separator(text, separators) ==
    LET hit == {i \in 1..Len(separators) : separators[i] = <<>> \/ str_in(separators[i], text)}
    IN  IF hit = {}
        THEN [separator |-> separators[Len(separators)], new_separators |-> <<>>]
        ELSE LET i == CHOOSE i \in hit : \A j \in hit : i <= j
             IN  [separator |-> separators[i],
                  new_separators |-> IF separators[i] = <<>> THEN <<>>
                                     ELSE SubSeq(separators, i + 1, Len(separators))]

RECURSIVE split_text(_, _, _, _)
RECURSIVE split_loop(_, _, _, _, _, _)

\* The loop of _split_text over the pieces: short pieces are collected and
\* merged, a piece of chunk_size or more is split again with the next separators
split_loop(splits, good_splits, final_chunks, new_separators, chunk_size, chunk_overlap) ==
    IF splits = <<>>
    THEN IF good_splits # <<>>
         THEN final_chunks \o merge_splits(good_splits, chunk_size, chunk_overlap)
         ELSE final_chunks
    ELSE LET s == Head(splits)
         IN  IF Len(s) < chunk_size
             THEN split_loop(Tail(splits), Append(good_splits, s), final_chunks,
                             new_separators, chunk_size, chunk_overlap)
             ELSE LET flushed == IF good_splits # <<>>
                                 THEN final_chunks \o merge_splits(good_splits, chunk_size, chunk_overlap)
                                 ELSE final_chunks
                      more == IF new_separators = <<>> THEN <<s>>
                              ELSE split_text(s, new_separators, chunk_size, chunk_overlap)
                  IN  split_loop(Tail(splits), <<>>, flushed \o more,
                                 new_separators, chunk_size, chunk_overlap)

\* RecursiveCharacterTextSplitter._split_text
split_text(text, separators, chunk_size, chunk_overlap) ==
    LET pick == pick_separator(text, separators)
    IN  split_loop(split_text_with_regex(text, pick.separator), <<>>, <<>>,
                   pick.new_separators, chunk_size, chunk_overlap)

\* A mutation of the splitter's parameter test: overlap = size is refused too
splitter_accepts_strict(chunk_size, chunk_overlap) == chunk_overlap < chunk_size

\* The parameter test of the splitter's constructor: ValueError when the
\* overlap is larger than the chunk size; chunk_documents adds no test of its own
splitter_accepts(chunk_size, chunk_overlap) == ~(chunk_overlap > chunk_size)

\* split_documents: the chunks of each document in turn, each with a copy of
\* its document's metadata
RECURSIVE split_documents(_, _, _)
split_documents(documents, chunk_size, chunk_overlap) ==
    IF documents = <<>> THEN <<>>
    ELSE LET doc == Head(documents)
             texts == split_text(doc.page_content, Separators, chunk_size, chunk_overlap)
         IN  [i \in 1..Len(texts) |-> [page_content |-> texts[i], metadata |-> doc.metadata]]
                 \o split_documents(Tail(documents), chunk_size, chunk_overlap)

\* The metadata loop of chunk_documents: chunk_id and chunk_size are stamped
stamp(chunks) ==
    [i \in 1..Len(chunks) |->
        [ page_content |-> chunks[i].page_content,
          metadata |-> [ source     |-> chunks[i].metadata.source,
                         chunk_id   |-> i - 1,
                         chunk_size |-> Len(chunks[i].page_content) ] ]]

\* chunk_documents: the outcome for the loaded documents and the parameters
chunk_documents(documents, chunk_size, chunk_overlap) ==
    IF documents = <<>>
    THEN [pc |-> "raised", error |-> "ValueError: No documents loaded", chunks |-> <<>>]
    ELSE IF ~splitter_accepts(chunk_size, chunk_overlap)
    THEN [pc |-> "raised", error |-> "ValueError: chunk overlap", chunks |-> <<>>]
    ELSE [pc |-> "done", error |-> "none",
          chunks |-> stamp(split_documents(documents, chunk_size, chunk_overlap))]

Alphabet == {"a", ".", " ", "\n"}

Texts == UNION { [1..n -> Alphabet] : n \in 0..MaxDocLen }

SrcA == <<"d", "/", "a">>
SrcB == <<"b">>

Page(text, src) == [page_content |-> text, metadata |-> [source |-> src]]

\* What load_documents may have loaded: nothing, one page, or two pages
DocLists ==
    {<<>>} \cup { <<Page(t, SrcA)>> : t \in Texts }
           \cup { <<Page(<<"a", " ", "a">>, SrcA), Page(<<"a", ".", " ", "a">>, SrcB)>> }

NoChunker ==
    [ pc            |-> "idle",
      documents     |-> <<>>,
      chunk_size    |-> 1,
      chunk_overlap |-> 0,
      chunks        |-> <<>>,
      error         |-> "none" ]

\* processor.chunk_documents(chunk_size, chunk_overlap)
ChunkDocuments ==
    /\ chk.pc = "idle"
    /\ LET out == chunk_documents(chk.documents, chk.chunk_size, chk.chunk_overlap)
       IN  chk' = [chk EXCEPT !.pc = out.pc, !.error = out.error, !.chunks = out.chunks]
    /\ UNCHANGED << chat, apiKey, platform, storageVars, agentVars, buildVars >>

-----------------------------------------------------------------------------
(* backend/main.py : the chat endpoint over the chats collection *)

\* Requests served in one behaviour
MaxChats == 3

Users == {"u1", "u2"}

\* The user_id of a token that does not verify
NoUser == ""

\* session_id values a client sends; 0 stands for no session_id in the request
ClientSessions == {0, 1}

\* str(uuid.uuid4()): a session id no stored chat has
FreshSession(clock) == 100 + clock

ChatMessages == {Q_Hello, Q_Repay}

\* What the index answers to the search of a chat request
ChatSearches == {SearchFail, SearchOutcome(TRUE, <<>>), SearchOutcome(TRUE, <<D_a1, D_b>>)}

\* The metadata chats_collection.add stores for one exchange
ChatRecord(user_id, session_id, user_message, bot_response, timestamp) ==
    [ user_id      |-> user_id,
      session_id   |-> session_id,
      user_message |-> user_message,
      bot_response |-> bot_response,
      timestamp    |-> timestamp ]

\* The orders in which a sequence can be listed
Orderings(seq) ==
    LET n == Len(seq)
        perms == { p \in [1..n -> 1..n] : \A i, j \in 1..n : p[i] = p[j] => i = j }
    IN  { [i \in 1..n |-> seq[p[i]]] : p \in perms }

\* chats_collection.get(where={"session_id": session_id}): the stored chats of
\* the session; the call asks for no order, so any listing may come back
collection_get(store, session_id) ==
    LET InSession(r) == r.session_id = session_id
    IN  Orderings(SelectSeq(store, InSession))

\* A mutation of the history loop of chat: the user_id test is left out
RECURSIVE chat_history_unfiltered(_, _)
chat_history_unfiltered(results, user_id) ==
    IF results = <<>> THEN <<>>
    ELSE LET metadata == Head(results)
         IN  << Msg("user", metadata.user_message), Msg("assistant", metadata.bot_response) >>
                 \o chat_history_unfiltered(Tail(results), user_id)

\* The history loop of chat: two messages per stored chat of the same user_id,
\* in the order of the results
RECURSIVE chat_history_of(_, _)
chat_history_of(results, user_id) ==
    IF results = <<>> THEN <<>>
    ELSE LET metadata == Head(results)
             rest == chat_history_of(Tail(results), user_id)
         IN  IF dict_get(metadata, "user_id", "") = user_id
             THEN << Msg("user", metadata.user_message),
                     Msg("assistant", metadata.bot_response) >> \o rest
             ELSE rest

\* NELFUNDRAGAgent(): the exception of the constructor, "none" when it succeeds
construct_agent ==
    IF ~apiKey THEN "ValueError"
    ELSE IF ~dirExists THEN "FileNotFoundError"
    ELSE "none"

\* A mutation of get_rag_agent: an agent is constructed on every call
get_rag_agent_fresh(instance, built) ==
    IF construct_agent # "none"
    THEN [instance |-> instance, built |-> built, error |-> construct_agent]
    ELSE [instance |-> built + 1, built |-> built + 1, error |-> "none"]

\* get_rag_agent(): instance is _agent_instance (0 for None), built counts the
\* agents constructed so far; a constructor that raises leaves _agent_instance
get_rag_agent(instance, built) ==
    IF instance = 0
    THEN IF construct_agent # "none"
         THEN [instance |-> instance, built |-> built, error |-> construct_agent]
         ELSE [instance |-> built + 1, built |-> built + 1, error |-> "none"]
    ELSE [instance |-> instance, built |-> built, error |-> "none"]

\* graph.invoke(initial_state) run to its end: the nodes in the order of the
\* edges, an exception of a node ending the run
graph_invoke(state, search, llm) ==
    LET classified == classify_query(state)
        retrieved == retrieve_documents(classified, search)
    IN  IF retrieved.raised THEN [raised |-> TRUE, state |-> retrieved.state, prompt |-> <<>>]
        ELSE LET generated == generate_response(retrieved.state, llm)
             IN  [raised |-> generated.raised, state |-> generated.state,
                  prompt |-> <<build_prompt(retrieved.state)>>]

\* agent.query(user_query, chat_history)
agent_query(user_query, chat_history, search, llm) ==
    LET out == graph_invoke(initial_state(user_query, chat_history), search, llm)
    IN  [raised |-> out.raised, result |-> query_result(out.state), prompt |-> out.prompt]

NoChat ==
    [ store    |-> <<>>,    \* the chats collection, in the order the chats were added
      clock    |-> 0,       \* requests served so far; the timestamp of the next chat
      instance |-> 0,       \* _agent_instance: 0 for None, else the agent's number
      built    |-> 0,       \* agents constructed so far
      failed   |-> 0,       \* NELFUNDRAGAgent() constructions that raised
      calls    |-> 0,       \* get_rag_agent calls made so far
      got      |-> {},      \* the agents get_rag_agent has returned so far
      last     |-> <<>> ]   \* the last request served, if any

\* What is kept of a served request
Served(status, user_id, session_id, before, results, handed, prompt, error) ==
    [ status     |-> status,
      user_id    |-> user_id,
      session_id |-> session_id,
      before     |-> before,     \* the chats collection when the request came
      results    |-> results,    \* what chats_collection.get returned, <<>> if it raised
      handed     |-> handed,     \* the chat_history handed to agent.query
      prompt     |-> prompt,     \* the prompt handed to the chain, if any
      error      |-> error ]

\* POST /api/chat, the whole handler: the token, the session id, the history
\* of the session, the agent's answer, the stored chat, the response
Chat(user_id, sid, message, getOk, search, llm, addOk) ==
    /\ chat.clock < MaxChats
    /\ LET session_id == IF sid = 0 THEN FreshSession(chat.clock) ELSE sid
       IN  \E results \in (IF getOk THEN collection_get(chat.store, session_id) ELSE {<<>>}) :
           LET chat_history == chat_history_of(results, user_id)
               got == get_rag_agent(chat.instance, chat.built)
               out == agent_query(message, chat_history, search, llm)
               served(status, handed, prompt, error) ==
                   Served(status, user_id, session_id, chat.store, results, handed, prompt, error)
           IN  IF user_id = NoUser
               THEN /\ chat' = [chat EXCEPT !.clock = @ + 1,
                                   !.last = <<Served(401, user_id, sid, chat.store, <<>>, <<>>,
                                                     <<>>, "Invalid token")>>]
                    /\ UNCHANGED << agent, agentError >>
               ELSE IF got.error # "none"
               THEN /\ chat' = [chat EXCEPT !.clock = @ + 1,
                                   !.calls = @ + 1,
                                   !.failed = @ + 1,
                                   !.last = <<served(500, chat_history, <<>>, got.error)>>]
                    /\ agent' = "None"
                    /\ agentError' = got.error
               ELSE /\ agent' = "ready"
                    /\ agentError' = "none"
                    /\ IF out.raised
                       THEN chat' = [chat EXCEPT
                                !.clock = @ + 1,
                                !.instance = got.instance,
                                !.built = got.built,
                                !.got = @ \cup {got.instance},
                                !.calls = @ + 1,
                                !.last = <<served(500, chat_history, out.prompt, "Chat error")>>]
                       ELSE chat' = [chat EXCEPT
                                !.clock = @ + 1,
                                !.instance = got.instance,
                                !.built = got.built,
                                !.got = @ \cup {got.instance},
                                !.calls = @ + 1,
                                !.store = IF addOk
                                          THEN Append(@, ChatRecord(user_id, session_id, message,
                                                                    out.result.response, chat.clock))
                                          ELSE @,
                                !.last = <<served(200, chat_history, out.prompt, "none")>>]
    /\ UNCHANGED << chk, apiKey, platform, storageVars, indexUp, liveQ, run, buildVars >>

\* The environment: setup_vectordb.py is run and the vector store appears
SetupRuns ==
    /\ ~dirExists
    /\ dirExists' = TRUE
    /\ UNCHANGED << chat, chk, apiKey, platform, entries, agentVars, buildVars >>

-----------------------------------------------------------------------------
(* Specifications *)

TypeOK ==
    /\ apiKey \in BOOLEAN
    /\ platform \in {"posix", "nt"}
    /\ dirExists \in BOOLEAN
    /\ indexUp \in BOOLEAN
    /\ agent \in {"None", "ready"}
    /\ liveQ \subseteq Slots
    /\ liveB \subseteq Builders
    /\ ncalls \in 0..MaxBuilds

\* Query time: one caller at a time on the singleton agent
Init ==
    /\ apiKey \in BOOLEAN
    /\ platform \in {"posix", "nt"}
    /\ dirExists \in BOOLEAN
    /\ entries \in (IF dirExists THEN {{}, {Entry(d, 0) : d \in Corpus}} ELSE {{}})
    /\ indexUp = TRUE
    /\ agent = "None"
    /\ agentError = "none"
    /\ liveQ = {"q1"}
    /\ run = [s \in Slots |-> IdleRun]
    /\ liveB = {}
    /\ bld = [b \in Builders |-> NewBuilder]
    /\ ncalls = 0
    /\ chk = NoChunker
    /\ chat = NoChat

Next ==
    \/ GetRagAgent
    \/ \E s \in Slots, q \in Queries, h \in Histories : QueryStart(s, q, h)
    \/ \E s \in Slots : Classify(s)
    \/ \E s \in Slots : Retrieve(s)
    \/ \E s \in Slots : Generate(s)
    \/ \E s \in Slots : QueryReturn(s)
    \/ IndexOutage
    \/ IndexRestore

Spec == Init /\ [][Next]_vars

\* Setup time: the build processes in `launched` run create_vectorstore
BuildInit(launched) ==
    /\ apiKey \in BOOLEAN
    /\ platform = "posix"
    /\ dirExists \in BOOLEAN
    /\ entries \in (IF dirExists THEN OldCollections ELSE {{}})
    /\ indexUp = TRUE
    /\ agent = "None"
    /\ agentError = "none"
    /\ liveQ = {}
    /\ run = [s \in Slots |-> IdleRun]
    /\ liveB = launched
    /\ bld = [b \in Builders |-> NewBuilder]
    /\ ncalls = 0
    /\ chk = NoChunker
    /\ chat = NoChat

BuildNext ==
    \/ \E b \in Builders : NewVectorStore(b)
    \/ \E b \in Builders, d \in DocSets, f \in BOOLEAN : BuildCall(b, d, f)
    \/ \E b \in Builders : LoadExisting(b)
    \/ \E b \in Builders : LoadCall(b)
    \/ \E b \in Builders : ClearDirectory(b)
    \/ \E b \in Builders : Makedirs(b)
    \/ \E b \in Builders : EmbedTest(b)
    \/ \E b \in Builders : FromDocuments(b)

SeqBuildInit == BuildInit({"b1"})

ConcBuildInit == BuildInit(Builders)

\* One setup process
BuildSpec == SeqBuildInit /\ [][BuildNext]_vars

\* Two setup processes started on the same persist_directory
ConcBuildSpec == ConcBuildInit /\ [][BuildNext]_vars

IndexNext ==
    \/ BuildNext
    \/ \E b \in Builders : SearchCall(b)
    \/ \E b \in Builders : SearchEmbed(b)

\* One process that builds, loads and searches the index
IndexSpec == SeqBuildInit /\ [][IndexNext]_vars


\* Chunking: one processor with its loaded documents and its parameters
ChunkInit ==
    /\ apiKey = TRUE
    /\ platform = "posix"
    /\ dirExists = FALSE
    /\ entries = {}
    /\ indexUp = TRUE
    /\ agent = "None"
    /\ agentError = "none"
    /\ liveQ = {}
    /\ run = [s \in Slots |-> IdleRun]
    /\ liveB = {}
    /\ bld = [b \in Builders |-> NewBuilder]
    /\ ncalls = 0
    /\ chat = NoChat
    /\ \E docs \in DocLists, size \in 1..MaxChunkSize, overlap \in 0..MaxChunkSize :
          chk = [NoChunker EXCEPT !.documents = docs, !.chunk_size = size,
                                  !.chunk_overlap = overlap]

ChunkNext == ChunkDocuments

ChunkSpec == ChunkInit /\ [][ChunkNext]_vars


\* Two callers on the singleton agent at the same time
ConcQueries == {Q_Hello, Q_Docs}

ConcHistories == {<<>>, H_Short}

ConcQueryInit ==
    /\ apiKey = TRUE
    /\ platform = "posix"
    /\ dirExists = TRUE
    /\ entries = {Entry(D_a1, 0), Entry(D_b, 0)}
    /\ indexUp = TRUE
    /\ agent = "None"
    /\ agentError = "none"
    /\ liveQ = Slots
    /\ run = [s \in Slots |-> IdleRun]
    /\ liveB = {}
    /\ bld = [b \in Builders |-> NewBuilder]
    /\ ncalls = 0
    /\ chk = NoChunker
    /\ chat = NoChat

ConcQueryNext ==
    \/ GetRagAgent
    \/ \E s \in Slots, q \in ConcQueries, h \in ConcHistories : QueryStart(s, q, h)
    \/ \E s \in Slots : Classify(s)
    \/ \E s \in Slots : Retrieve(s)
    \/ \E s \in Slots : Generate(s)
    \/ \E s \in Slots : QueryReturn(s)
    \/ IndexOutage
    \/ IndexRestore

ConcQuerySpec == ConcQueryInit /\ [][ConcQueryNext]_vars

\* The API process: chat requests served one after the other by the event loop
ChatInit ==
    /\ apiKey \in BOOLEAN
    /\ platform = "posix"
    /\ dirExists \in BOOLEAN
    /\ entries = {}
    /\ indexUp = TRUE
    /\ agent = "None"
    /\ agentError = "none"
    /\ liveQ = {}
    /\ run = [s \in Slots |-> IdleRun]
    /\ liveB = {}
    /\ bld = [b \in Builders |-> NewBuilder]
    /\ ncalls = 0
    /\ chk = NoChunker
    /\ chat = NoChat

ChatNext ==
    \/ \E user_id \in Users \cup {NoUser}, sid \in ClientSessions, message \in ChatMessages,
          getOk \in BOOLEAN, search \in ChatSearches, llm \in LLMReplies \cup {LLMFail},
          addOk \in BOOLEAN :
             Chat(user_id, sid, message, getOk, search, llm, addOk)
    \/ SetupRuns

ChatSpec == ChatInit /\ [][ChatNext]_vars

-----------------------------------------------------------------------------
(* Properties of the retrieval agent, checked under Spec *)

StageOrder == <<"classify", "retrieve", "generate", "done">>

IsPrefix(a, b) == Len(a) <= Len(b) /\ SubSeq(b, 1, Len(a)) = a

HasSeparator(path) == \E i \in 1..Len(path) : path[i] \in {"/", "\\"}

\* The patterns occur in the normalised text, position by position
Conversational(text) ==
    LET t == strip(lower(text))
    IN  \E n \in 1..Len(no_retrieval_patterns) :
           LET p == no_retrieval_patterns[n]
           IN  \E off \in 0..Len(t) :
                  /\ off + Len(p) <= Len(t)
                  /\ \A j \in 1..Len(p) : t[off + j] = p[j]

Returned(s) == run[s].pc = "returned"

\* C1: the nodes of a query complete in the order classify, retrieve,
\* generate, done, each at most once; a node runs only when all the nodes before
\* it have completed (so generate never starts before retrieve has finished),
\* and a query that returns has completed all four.
C1_StagesInOrder ==
    \A s \in Slots :
        /\ IsPrefix(run[s].trace, StageOrder)
        /\ run[s].pc = "classify" => run[s].trace = <<>>
        /\ run[s].pc = "retrieve" => run[s].trace = SubSeq(StageOrder, 1, 1)
        /\ run[s].pc = "generate" => run[s].trace = SubSeq(StageOrder, 1, 2)
        /\ run[s].pc = END => run[s].trace = SubSeq(StageOrder, 1, 3)
        /\ Returned(s) => run[s].trace = StageOrder
        /\ run[s].llmCalls > 0 => Len(run[s].trace) >= 2

C1_Witness ==
    /\ Returned("q1")
    /\ run["q1"].state.needs_retrieval
    /\ run["q1"].hits # <<>>

C3_NoAnswerWithoutIndex ==
    /\ agent = "ready" => dirExists
    /\ \A s \in Slots :
          /\ run[s].pc # "idle" => agent = "ready"
          /\ run[s].searchFailed =>
                /\ run[s].pc = "raised"
                /\ run[s].llmCalls = 0
                /\ run[s].prompt = <<>>
                /\ run[s].result = <<>>
          /\ (run[s].state.needs_retrieval /\ run[s].llmCalls > 0) =>
                run[s].searchCalls = 1 /\ ~run[s].searchFailed

C3_Witness ==
    /\ run["q1"].searchFailed
    /\ run["q1"].state.needs_retrieval
    /\ run["q1"].pc = "raised"
    /\ entries # {}

\* C4: for a query classified as conversational the index is never searched,
\* the retrieved-chunk list stays empty, and the returned result has
\* needs_retrieval = FALSE and sources = []; "Hello!" is such a query.
C4_ConversationalSkipsIndex ==
    \A s \in Slots :
        /\ (run[s].pc \in {"retrieve", "generate", END, "returned", "raised"}
                /\ ~run[s].state.needs_retrieval) =>
              /\ run[s].searchCalls = 0
              /\ run[s].hits = <<>>
              /\ run[s].state.retrieved_docs = <<>>
              /\ run[s].state.sources = <<>>
        /\ (Returned(s) /\ ~run[s].state.needs_retrieval) =>
              /\ run[s].result[1].needs_retrieval = FALSE
              /\ run[s].result[1].sources = <<>>
        /\ (Returned(s) /\ run[s].state.query = Q_Hello) =>
              ~run[s].state.needs_retrieval

C4_Witness ==
    /\ Returned("q1")
    /\ run["q1"].state.query = Q_Hello
    /\ run["q1"].result[1].sources = <<>>
    /\ indexUp
    /\ entries # {}

FirstIndex(seq, x) == CHOOSE i \in 1..Len(seq) : seq[i] = x /\ \A j \in 1..(i - 1) : seq[j] # x

\* C5: the returned sources hold no duplicate; every retrieved chunk's source
\* identifier is there once, and the entries are in the order in which their
\* sources first appear among the search results.
C5_SourcesDistinctInOrder ==
    \A s \in Slots :
        (Returned(s) /\ run[s].state.needs_retrieval) =>
            LET sources == run[s].result[1].sources
                ids == [i \in 1..Len(run[s].hits) |-> source_of(run[s].hits[i])]
            IN  /\ \A i, j \in 1..Len(sources) : sources[i] = sources[j] => i = j
                /\ {sources[i] : i \in 1..Len(sources)} = {ids[i] : i \in 1..Len(ids)}
                /\ \A i, j \in 1..Len(sources) :
                      i < j => FirstIndex(ids, sources[i]) < FirstIndex(ids, sources[j])

C5_Witness ==
    /\ Returned("q1")
    /\ run["q1"].hits = <<D_a1, D_b, D_a2, D_ea>>
    /\ Len(run["q1"].result[1].sources) = 2

\* C6: every returned source is a bare file name: a retrieved chunk whose
\* source holds a directory part, separated by "/" or by "\", is listed by its
\* final path component alone.
C6_SourcesAreBareNames ==
    \A s \in Slots :
        (Returned(s) /\ run[s].state.needs_retrieval) =>
            LET sources == run[s].result[1].sources
            IN  /\ \A j \in 1..Len(sources) : ~HasSeparator(sources[j])
                /\ \A i \in 1..Len(run[s].hits) :
                      LET src == dict_get(run[s].hits[i].metadata, "source", UnknownDocument)
                      IN  HasSeparator(src) =>
                             \E j \in 1..Len(sources) :
                                 sources[j] = SubSeq(src, rfind(src, {"/", "\\"}) + 1, Len(src))

-----------------------------------------------------------------------------
(* Properties of index construction, checked under BuildSpec / ConcBuildSpec *)

Now == Storage(dirExists, entries)

\* C7: a create_vectorstore call that fails leaves the persisted storage as it
\* was when the call began; in particular a directory that did not exist still
\* does not exist.
C7_FailedBuildLeavesStorage ==
    \A b \in Builders : bld[b].pc = "raised" => Now = bld[b].before

\* The part of create_vectorstore that erases and writes the storage
InBuild(b) == bld[b].pc \in {"clear", "makedirs", "embed", "from_documents"}

\* C8: no two builds are erasing or writing the same collection at the same
\* time.
C8_OneBuildAtATime ==
    \A a, b \in Builders : (InBuild(a) /\ InBuild(b)) => a = b

\* C9: a create_vectorstore call with force_recreate on an existing directory
\* that returns leaves a collection holding only entries written by this call.
C9_RecreateHoldsOnlyNewEntries ==
    \A b \in Builders :
        (bld[b].pc = "done" /\ bld[b].force_recreate /\ bld[b].db_exists) =>
            \A e \in entries : e.call = bld[b].call

\* C10: a create_vectorstore call without force_recreate on an existing
\* directory takes the load path: it makes no embedding call, erases and
\* writes nothing, leaves the stored entries as they were whatever documents
\* it was given, and when it returns, returns the loaded collection.
C10_LoadLeavesStoreAlone ==
    \A b \in Builders :
        (bld[b].pc \notin {"new", "ready", "init_failed"}
            /\ bld[b].db_exists /\ ~bld[b].force_recreate) =>
            /\ bld[b].pc \in {"load", "done", "raised"}
            /\ bld[b].embedCalls = 0
            /\ bld[b].writes = 0
            /\ bld[b].erases = 0
            /\ Now = bld[b].before
            /\ bld[b].pc = "done" => bld[b].vectorstore = "loaded"

C10_Witness ==
    /\ bld["b1"].pc = "done"
    /\ bld["b1"].db_exists
    /\ ~bld["b1"].force_recreate
    /\ bld["b1"].documents = {D_a1, D_b}
    /\ entries = {Entry(D_ea, 0)}
    /\ bld["b1"].vectorstore = "loaded"


\* C11: when the directory holds exactly what one earlier build of these
\* documents wrote, a second create_vectorstore of the same documents without
\* force_recreate that returns leaves exactly those entries, none added, none
\* removed, so every search answers from the same stored chunks as after one
\* build.
C11_SecondBuildChangesNothing ==
    \A b \in Builders :
        (/\ bld[b].pc = "done"
         /\ bld[b].op = "create"
         /\ ~bld[b].force_recreate
         /\ bld[b].before.dir
         /\ \E c \in 1..(bld[b].call - 1) :
               bld[b].before.entries = {Entry(d, c) : d \in bld[b].documents}) =>
            /\ entries = bld[b].before.entries
            /\ StoredDocs = bld[b].documents
            /\ bld[b].embedCalls = 0

C11_Witness ==
    /\ bld["b1"].pc = "done"
    /\ bld["b1"].op = "create"
    /\ ~bld["b1"].force_recreate
    /\ bld["b1"].call = 2
    /\ bld["b1"].documents = {D_a1, D_b}
    /\ bld["b1"].before = Storage(TRUE, {Entry(D_a1, 1), Entry(D_b, 1)})
    /\ entries = {Entry(D_a1, 1), Entry(D_b, 1)}

\* C12: load_vectorstore on a directory that does not exist raises: the call
\* ends without a handle, the directory is still absent, nothing was written
\* and the embedding service was not called.
C12_LoadMissingRaises ==
    \A b \in Builders :
        (bld[b].op = "load" /\ ~bld[b].db_exists /\ bld[b].call > 0) =>
            /\ bld[b].pc = "raised"
            /\ bld[b].embedCalls = 0
            /\ bld[b].writes = 0
            /\ Now = bld[b].before
            /\ ~dirExists
            /\ bld[b].vectorstore # "loaded"

C12_Witness ==
    /\ bld["b1"].op = "load"
    /\ bld["b1"].call = 1
    /\ ~bld["b1"].db_exists
    /\ bld["b1"].pc = "raised"
    /\ bld["b1"].vectorstore = "None"


-----------------------------------------------------------------------------
(* Further properties of the agent (Spec) and of construction (BuildSpec) *)

\* C13: once the chain has been invoked for a query, either it failed and the
\* query ended with the exception (nothing returned, no response text set), or
\* the response is the text the chain produced; no other text is ever returned.
C13_GenerationFailureSurfaces ==
    \A s \in Slots :
        /\ run[s].prompt # <<>> =>
              /\ run[s].llmCalls = 1
              /\ \/ /\ run[s].pc = "raised"
                    /\ run[s].result = <<>>
                    /\ run[s].state.response = ""
                 \/ /\ run[s].pc \in {END, "returned"}
                    /\ run[s].state.response \in LLMReplies
        /\ Returned(s) => run[s].result[1].response \in LLMReplies
        /\ run[s].prompt = <<>> => run[s].state.response = ""

C13_Witness ==
    /\ run["q1"].pc = "raised"
    /\ run["q1"].prompt # <<>>
    /\ run["q1"].llmCalls = 1
    /\ run["q1"].hits # <<>>
    /\ run["q1"].result = <<>>

\* C16: without OPENAI_API_KEY the construction of NELFUNDVectorStore fails in
\* _initialize_embeddings: no create or load call is ever made on the object, so
\* no embedding call, no erase and no write happens and no handle exists.
C16_NoCredentialNoWork ==
    ~apiKey =>
        /\ ncalls = 0
        /\ \A b \in Builders :
              /\ bld[b].pc \in {"new", "init_failed"}
              /\ bld[b].embedCalls = 0
              /\ bld[b].writes = 0
              /\ bld[b].erases = 0
              /\ bld[b].vectorstore = "None"
        /\ entries \in OldCollections

C16_Witness ==
    /\ ~apiKey
    /\ dirExists
    /\ entries # {}
    /\ bld["b1"].pc = "init_failed"

\* C17: "What documents do I need to apply?" is classified as needing
\* retrieval, the index is searched once, and when the search returns at least
\* one chunk the returned sources list is not empty.
C17_GroundedScenario ==
    \A s \in Slots :
        (Returned(s) /\ run[s].state.query = Q_Docs) =>
            /\ run[s].result[1].needs_retrieval
            /\ run[s].searchCalls = 1
            /\ run[s].hits # <<>> => run[s].result[1].sources # <<>>

C17_Witness ==
    /\ Returned("q1")
    /\ run["q1"].state.query = Q_Docs
    /\ run["q1"].hits # <<>>
    /\ run["q1"].result[1].needs_retrieval
    /\ run["q1"].result[1].sources # <<>>


\* C25: a create_vectorstore call whose erasing of the existing collection
\* failed ends with an error, and writes nothing after the failure.
C25_FailedEraseSurfaces ==
    \A b \in Builders :
        bld[b].eraseFailed => (bld[b].pc = "raised" /\ bld[b].writes = 0)

EmptySearch(s) ==
    /\ run[s].state.needs_retrieval
    /\ run[s].searchCalls = 1
    /\ ~run[s].searchFailed
    /\ run[s].hits = <<>>

\* C28: a query that needs retrieval and whose search returns nothing goes on
\* to generate with the grounded prompt and an empty context, and returns
\* needs_retrieval = TRUE with no sources; it ends with an exception only when
\* the chain itself raised.
C28_EmptySearchStillGrounded ==
    \A s \in Slots :
        EmptySearch(s) =>
            /\ run[s].pc \in {"generate", END, "returned", "raised"}
            /\ run[s].state.retrieved_docs = <<>>
            /\ run[s].pc = "raised" => run[s].llm = <<LLMFail>>
            /\ run[s].pc # "generate" =>
                  /\ run[s].llmCalls = 1
                  /\ run[s].prompt[1].system = "grounded"
                  /\ run[s].prompt[1].context = <<>>
                  /\ run[s].prompt[1].query = run[s].asked[1]
            /\ Returned(s) =>
                  /\ run[s].result[1].needs_retrieval
                  /\ run[s].result[1].sources = <<>>
                  /\ run[s].result[1].response \in LLMReplies

C28_Witness ==
    /\ Returned("q1")
    /\ EmptySearch("q1")
    /\ entries # {}
    /\ run["q1"].asked = <<Q_Repay>>
    /\ run["q1"].prompt[1].system = "grounded"
    /\ run["q1"].result[1].sources = <<>>

-----------------------------------------------------------------------------
(* Properties of chunking, checked under ChunkSpec *)

Chunked == chk.pc = "done"

\* The chunk texts that came from the i-th loaded document
ChunkTexts(i) ==
    LET FromDoc(c) == c.metadata.source = chk.documents[i].metadata.source
        own == SelectSeq(chk.chunks, FromDoc)
    IN  [k \in 1..Len(own) |-> own[k].page_content]

Suffix(s, n) == SubSeq(s, Len(s) - n + 1, Len(s))
Prefix(s, n) == SubSeq(s, 1, n)
Min(a, b) == IF a < b THEN a ELSE b
Max(a, b) == IF a < b THEN b ELSE a

\* C18: chunking with chunk_overlap not strictly less than chunk_size,
\* chunk_overlap = chunk_size included, ends in an error and produces no chunk.
C18_OverlapNotBelowSizeRejected ==
    (chk.pc # "idle" /\ chk.chunk_overlap >= chk.chunk_size) =>
        chk.pc = "raised" /\ chk.chunks = <<>>

\* The chunks, each with at most `overlap` leading characters removed where
\* they repeat the end of what is already rebuilt, concatenate to the text
RECURSIVE Rebuilds(_, _, _, _)
Rebuilds(text, chunks, acc, overlap) ==
    IF chunks = <<>> THEN acc = text
    ELSE LET c == Head(chunks)
         IN  \E o \in 0..Min(overlap, Min(Len(c), Len(acc))) :
                /\ Suffix(acc, o) = Prefix(c, o)
                /\ Rebuilds(text, Tail(chunks), acc \o SubSeq(c, o + 1, Len(c)), overlap)

\* C19 as stated: the chunks of every document, with the overlap regions
\* removed, concatenate to the document's content exactly.
C19_ChunksRebuildDocument ==
    Chunked =>
        \A i \in 1..Len(chk.documents) :
            Rebuilds(chk.documents[i].page_content, ChunkTexts(i), <<>>, chk.chunk_overlap)

\* The chunks can be laid over the text in order: each is a contiguous slice
\* that starts no earlier than the one before it, reaches back over at most
\* `overlap` characters already covered, and leaves only whitespace uncovered
RECURSIVE LaysOver(_, _, _, _, _)
LaysOver(text, chunks, prevStart, covered, overlap) ==
    IF chunks = <<>>
    THEN \A p \in (covered + 1)..Len(text) : text[p] \in Whitespace
    ELSE LET c == Head(chunks)
         IN  \E st \in Max(prevStart, 1)..(Len(text) - Len(c) + 1) :
                /\ SubSeq(text, st, st + Len(c) - 1) = c
                /\ st + overlap >= covered + 1
                /\ \A p \in (covered + 1)..(st - 1) : text[p] \in Whitespace
                /\ LaysOver(text, Tail(chunks), st, Max(covered, st + Len(c) - 1), overlap)

\* C19 as amended: every chunk is a contiguous slice of its document, the
\* chunks come in document order, consecutive chunks repeat at most
\* chunk_overlap characters, and the only characters of the document that
\* are in no chunk are whitespace.
C19_OnlyWhitespaceIsLost ==
    Chunked =>
        \A i \in 1..Len(chk.documents) :
            /\ LaysOver(chk.documents[i].page_content, ChunkTexts(i), 1, 0, chk.chunk_overlap)
            /\ \A k \in 1..Len(ChunkTexts(i)) : ChunkTexts(i)[k] # <<>>

C19_Witness ==
    /\ Chunked
    /\ chk.documents = <<Page(<<"a", ".", " ", "a", "a">>, SrcA)>>
    /\ chk.chunk_size = 2
    /\ chk.chunk_overlap = 1
    /\ Len(chk.chunks) >= 2
    /\ ~Rebuilds(chk.documents[1].page_content, ChunkTexts(1), <<>>, chk.chunk_overlap)

\* C20: of two consecutive chunks of one document that are both longer than
\* chunk_overlap, the last chunk_overlap characters of the first are the first
\* chunk_overlap characters of the second.
C20_ExactOverlap ==
    Chunked =>
        \A i \in 1..Len(chk.documents) :
            \A k \in 1..(Len(ChunkTexts(i)) - 1) :
                LET a == ChunkTexts(i)[k]
                    b == ChunkTexts(i)[k + 1]
                IN  (Len(a) > chk.chunk_overlap /\ Len(b) > chk.chunk_overlap) =>
                        Suffix(a, chk.chunk_overlap) = Prefix(b, chk.chunk_overlap)

\* C21: every chunk is at most chunk_size characters long, and the chunk_size
\* stamped in its metadata is its own length in characters.
C21_ChunksWithinSize ==
    Chunked =>
        \A k \in 1..Len(chk.chunks) :
            /\ Len(chk.chunks[k].page_content) <= chk.chunk_size
            /\ chk.chunks[k].metadata.chunk_size = Len(chk.chunks[k].page_content)

C21_Witness ==
    /\ Chunked
    /\ chk.chunk_overlap < chk.chunk_size
    /\ Len(chk.documents) = 1
    /\ Len(chk.documents[1].page_content) > chk.chunk_size
    /\ Len(chk.chunks) >= 2
    /\ \E k \in 1..Len(chk.chunks) : Len(chk.chunks[k].page_content) = chk.chunk_size
    /\ \E k \in 1..Len(chk.chunks) : Len(chk.chunks[k].page_content) < chk.chunk_size

\* C22: a query that needs retrieval makes exactly one search, with the query
\* text as it was asked and k = 4; retrieved_docs holds the contents of the
\* returned results in their order, so it has at most 4 entries, and sources
\* has no more entries than retrieved_docs.
C22_OneSearchTopFour ==
    \A s \in Slots :
        /\ run[s].searchCalls = Len(run[s].searchArgs)
        /\ run[s].searchCalls <= 1
        /\ (run[s].state.needs_retrieval
               /\ \E i \in 1..Len(run[s].trace) : run[s].trace[i] = "retrieve") =>
              /\ run[s].searchArgs = <<[query |-> run[s].asked[1], k |-> 4]>>
              /\ run[s].state.retrieved_docs =
                     [i \in 1..Len(run[s].hits) |-> run[s].hits[i].page_content]
              /\ Len(run[s].state.retrieved_docs) <= 4
              /\ Len(run[s].state.sources) <= Len(run[s].state.retrieved_docs)

C22_Witness ==
    /\ Returned("q1")
    /\ run["q1"].asked = <<Q_Docs>>
    /\ run["q1"].searchArgs = <<[query |-> Q_Docs, k |-> 4]>>
    /\ Len(run["q1"].state.retrieved_docs) = 4
    /\ Len(run["q1"].state.sources) = 2

\* C23: for a query that needed retrieval, the history in the prompt is the
\* last 6 messages of the history handed to query() (all of them when there
\* are fewer), in their order, each with its role and content.
C23_PromptHoldsLastSix ==
    \A s \in Slots :
        (run[s].prompt # <<>> /\ run[s].state.needs_retrieval) =>
            LET h == run[s].history
                n == IF Len(h) < 6 THEN Len(h) ELSE 6
                p == run[s].prompt[1].chat_history
            IN  /\ Len(p) = n
                /\ \A i \in 1..n :
                      /\ p[i].content = h[Len(h) - n + i].content
                      /\ p[i].type = (IF h[Len(h) - n + i].role = "user" THEN "human" ELSE "ai")

C23_Witness ==
    /\ Returned("q1")
    /\ run["q1"].state.needs_retrieval
    /\ run["q1"].history = H_Long
    /\ Len(run["q1"].prompt[1].chat_history) = 6
    /\ run["q1"].prompt[1].chat_history[1] = [type |-> "human", content |-> "u2"]
    /\ run["q1"].prompt[1].chat_history[6] = [type |-> "ai", content |-> "a4"]

-----------------------------------------------------------------------------
(* Properties of the chat endpoint, checked under ChatSpec *)

\* The chats stored under the session of the last request when it came, oldest
\* first
SessionChats ==
    LET InSession(r) == r.session_id = chat.last[1].session_id
    IN  SelectSeq(chat.last[1].before, InSession)

\* The last request was served with the stored chats of its session read
HistoryRead ==
    /\ chat.last # <<>>
    /\ chat.last[1].status # 401
    /\ Len(chat.last[1].results) = Len(SessionChats)

\* C24: the history handed to the agent lists the earlier exchanges of the
\* session oldest first, most recent last, so its last 6 messages are the 3
\* most recent exchanges.
C24_HistoryChronological ==
    HistoryRead =>
        /\ chat.last[1].handed = chat_history_of(SessionChats, chat.last[1].user_id)
        /\ last_n(chat.last[1].handed, 6) =
               last_n(chat_history_of(SessionChats, chat.last[1].user_id), 6)

-----------------------------------------------------------------------------
(* Properties of concurrent queries, checked under ConcQuerySpec *)

\* C26: whatever the other query does meanwhile, a query that returns returns
\* what agent.query computes from its own query text and history alone, given
\* the results its own search got and the text its own chain call produced; the
\* prompt it built is the prompt of its own inputs.
C26_QueriesIsolated ==
    \A s \in Slots :
        Returned(s) =>
            LET alone == agent_query(run[s].asked[1], run[s].history,
                                     SearchOutcome(TRUE, run[s].hits), run[s].llm[1])
            IN  /\ ~alone.raised
                /\ run[s].result = <<alone.result>>
                /\ run[s].prompt = alone.prompt

C26_Witness ==
    /\ Returned("q1")
    /\ Returned("q2")
    /\ run["q2"].overlapped
    /\ run["q1"].asked = <<Q_Hello>>
    /\ run["q2"].asked = <<Q_Docs>>
    /\ run["q2"].history = H_Short
    /\ Len(run["q2"].hits) = 2
    /\ run["q1"].result # run["q2"].result

\* C29: at most one agent is ever constructed and every get_rag_agent call
\* that returns, returns that one; a call whose construction raised leaves the
\* singleton unset, and while it is unset every call runs the constructor again.
C29_OneAgentInstance ==
    /\ chat.built <= 1
    /\ chat.got \subseteq {chat.instance} \ {0}
    /\ (chat.instance = 0) <=> (chat.built = 0)
    /\ (agent = "ready") <=> (chat.instance # 0)
    /\ chat.instance = 0 => chat.calls = chat.failed
    /\ chat.calls >= chat.failed + chat.built
    /\ (chat.last # <<>> /\ chat.last[1].error \in {"ValueError", "FileNotFoundError"}) =>
          /\ chat.last[1].status = 500
          /\ chat.instance = 0

C29_Witness ==
    /\ chat.failed >= 1
    /\ chat.built = 1
    /\ chat.got = {1}
    /\ chat.calls = 3

\* The two messages of each stored chat, in the order of the chats
RECURSIVE Exchanges(_)
Exchanges(records) ==
    IF records = <<>> THEN <<>>
    ELSE << Msg("user", Head(records).user_message),
            Msg("assistant", Head(records).bot_response) >> \o Exchanges(Tail(records))

\* C30: the history handed to the agent, and so the history in the prompt, is
\* made only of chats stored under the user_id of the request, also when the
\* session_id of the request holds chats of another user.
C30_HistoryOnlyOwnChats ==
    (chat.last # <<>> /\ chat.last[1].status # 401) =>
        LET Own(r) == r.user_id = chat.last[1].user_id
            own == Exchanges(SelectSeq(chat.last[1].results, Own))
        IN  /\ chat.last[1].handed = own
            /\ chat.last[1].prompt # <<>> =>
                  Len(chat.last[1].prompt[1].chat_history) <= Len(own)

C30_Witness ==
    /\ chat.last # <<>>
    /\ chat.last[1].status = 200
    /\ chat.last[1].user_id = "u1"
    /\ chat.last[1].session_id = 1
    /\ Len(chat.last[1].results) = 2
    /\ \E i \in 1..2 : /\ chat.last[1].results[i].user_id = "u2"
                       /\ chat.last[1].results[i].user_message = Q_Repay
    /\ chat.last[1].handed = << Msg("user", Q_Hello), Msg("assistant", "reply") >>
    /\ chat.last[1].prompt # <<>>

=============================================================================
